---- MODULE Spec2Model ----
(***************************************************************************)
(* A model of the egui_knob widget: the per-frame update Knob::ui of the   *)
(* modular widget (src/src/widget.rs, with its renderer src/src/render.rs  *)
(* and configuration src/src/config.rs) and of the monolithic widget       *)
(* (src/src/lib.rs).                                                       *)
(*                                                                         *)
(* f32 is modelled as fixed-point numbers with Scale units per 1.0, plus   *)
(* the IEEE special values NaN, +inf and -inf.  Addition and subtraction   *)
(* are exact on that grid; every multiplication and division rounds to the *)
(* nearest grid point (ties to even), so conversions there and back are    *)
(* computed and can lose precision, as in f32.                             *)
(***************************************************************************)
EXTENDS Integers, Sequences, FiniteSets, TLC

\* ------------------------------------------------------------------ f32

\* Units per 1.0 of the fixed-point grid standing for f32.
Scale == 1000

F(n) == [t |-> "fin", v |-> n]
NaN == [t |-> "nan", v |-> 0]
PInf == [t |-> "pinf", v |-> 0]
NInf == [t |-> "ninf", v |-> 0]

Zero == F(0)
One == F(Scale)

is_nan(x) == x.t = "nan"
is_fin(x) == x.t = "fin"

Abs(n) == IF n < 0 THEN -n ELSE n
Sgn(n) == IF n < 0 THEN -1 ELSE IF n > 0 THEN 1 ELSE 0

\* n / d (d > 0) rounded to the nearest integer, ties to even.
Rnd(n, d) ==
    LET a == Abs(n)
        q == a \div d
        r == a % d
        up == (2 * r > d) \/ (2 * r = d /\ q % 2 = 1)
    IN  Sgn(n) * (IF up THEN q + 1 ELSE q)

\* The sign of a value: -1, 0 or 1 (NaN has none and is handled by callers).
Sign(x) == IF x.t = "pinf" THEN 1 ELSE IF x.t = "ninf" THEN -1 ELSE Sgn(x.v)

Inf(s) == IF s < 0 THEN NInf ELSE PInf

Fneg(x) ==
    CASE x.t = "nan" -> NaN
      [] x.t = "pinf" -> NInf
      [] x.t = "ninf" -> PInf
      [] OTHER -> F(-x.v)

Fadd(a, b) ==
    CASE is_nan(a) \/ is_nan(b) -> NaN
      [] is_fin(a) /\ is_fin(b) -> F(a.v + b.v)
      [] is_fin(a) -> b
      [] is_fin(b) -> a
      [] a.t = b.t -> a
      [] OTHER -> NaN

Fsub(a, b) == Fadd(a, Fneg(b))

Fmul(a, b) ==
    CASE is_nan(a) \/ is_nan(b) -> NaN
      [] is_fin(a) /\ is_fin(b) -> F(Rnd(a.v * b.v, Scale))
      [] Sign(a) = 0 \/ Sign(b) = 0 -> NaN
      [] OTHER -> Inf(Sign(a) * Sign(b))

Fdiv(a, b) ==
    CASE is_nan(a) \/ is_nan(b) -> NaN
      [] is_fin(a) /\ is_fin(b) ->
            IF b.v = 0
            THEN (IF a.v = 0 THEN NaN ELSE Inf(Sgn(a.v)))
            ELSE F(Sgn(b.v) * Rnd(a.v * Scale, Abs(b.v)))
      [] is_fin(a) -> Zero
      [] is_fin(b) -> Inf(Sign(a) * (IF b.v < 0 THEN -1 ELSE 1))
      [] OTHER -> NaN

\* a < b, a <= b and a == b of f32: false as soon as an operand is NaN.
Flt(a, b) ==
    CASE is_nan(a) \/ is_nan(b) -> FALSE
      [] is_fin(a) /\ is_fin(b) -> a.v < b.v
      [] OTHER -> a.t # b.t /\ (a.t = "ninf" \/ b.t = "pinf")

Feq(a, b) == ~is_nan(a) /\ ~is_nan(b) /\ a = b

Fle(a, b) == Flt(a, b) \/ Feq(a, b)

\* f32::max: the other operand when one is NaN.
f32_max(a, b) ==
    IF is_nan(a) THEN b ELSE IF is_nan(b) THEN a ELSE IF Flt(a, b) THEN b ELSE a

\* f32::clamp panics unless lo <= hi (so also when a bound is NaN).
clamp_panics(lo, hi) == ~Fle(lo, hi)

\* f32::clamp: NaN stays NaN.
clamp(x, lo, hi) ==
    IF Flt(x, lo) THEN lo ELSE IF Flt(hi, x) THEN hi ELSE x

\* f32::round: to the nearest integer, halves away from zero.
round(x) ==
    IF is_fin(x)
    THEN F(Sgn(x.v) * ((2 * Abs(x.v) + Scale) \div (2 * Scale)) * Scale)
    ELSE x

\* emath::lerp(start..=end, t) = (1 - t) * start + t * end
lerp(start, end, t) == Fadd(Fmul(Fsub(One, t), start), Fmul(t, end))

\* emath::remap(x, from, to) = lerp(to, (x - from.start) / (from.end - from.start))
remap(x, from_start, from_end, to_start, to_end) ==
    lerp(to_start, to_end, Fdiv(Fsub(x, from_start), Fsub(from_end, from_start)))

\* 10^(i / Scale) on the grid, for i = 0 .. Scale (entry i + 1).
Pow10Tab ==
  <<
     1000, 1002, 1005, 1007, 1009, 1012, 1014, 1016, 1019, 1021, 1023, 1026, 1028, 1030, 1033, 1035,
     1038, 1040, 1042, 1045, 1047, 1050, 1052, 1054, 1057, 1059, 1062, 1064, 1067, 1069, 1072, 1074,
     1076, 1079, 1081, 1084, 1086, 1089, 1091, 1094, 1096, 1099, 1102, 1104, 1107, 1109, 1112, 1114,
     1117, 1119, 1122, 1125, 1127, 1130, 1132, 1135, 1138, 1140, 1143, 1146, 1148, 1151, 1153, 1156,
     1159, 1161, 1164, 1167, 1169, 1172, 1175, 1178, 1180, 1183, 1186, 1189, 1191, 1194, 1197, 1199,
     1202, 1205, 1208, 1211, 1213, 1216, 1219, 1222, 1225, 1227, 1230, 1233, 1236, 1239, 1242, 1245,
     1247, 1250, 1253, 1256, 1259, 1262, 1265, 1268, 1271, 1274, 1276, 1279, 1282, 1285, 1288, 1291,
     1294, 1297, 1300, 1303, 1306, 1309, 1312, 1315, 1318, 1321, 1324, 1327, 1330, 1334, 1337, 1340,
     1343, 1346, 1349, 1352, 1355, 1358, 1361, 1365, 1368, 1371, 1374, 1377, 1380, 1384, 1387, 1390,
     1393, 1396, 1400, 1403, 1406, 1409, 1413, 1416, 1419, 1422, 1426, 1429, 1432, 1435, 1439, 1442,
     1445, 1449, 1452, 1455, 1459, 1462, 1466, 1469, 1472, 1476, 1479, 1483, 1486, 1489, 1493, 1496,
     1500, 1503, 1507, 1510, 1514, 1517, 1521, 1524, 1528, 1531, 1535, 1538, 1542, 1545, 1549, 1552,
     1556, 1560, 1563, 1567, 1570, 1574, 1578, 1581, 1585, 1589, 1592, 1596, 1600, 1603, 1607, 1611,
     1614, 1618, 1622, 1626, 1629, 1633, 1637, 1641, 1644, 1648, 1652, 1656, 1660, 1663, 1667, 1671,
     1675, 1679, 1683, 1687, 1690, 1694, 1698, 1702, 1706, 1710, 1714, 1718, 1722, 1726, 1730, 1734,
     1738, 1742, 1746, 1750, 1754, 1758, 1762, 1766, 1770, 1774, 1778, 1782, 1786, 1791, 1795, 1799,
     1803, 1807, 1811, 1816, 1820, 1824, 1828, 1832, 1837, 1841, 1845, 1849, 1854, 1858, 1862, 1866,
     1871, 1875, 1879, 1884, 1888, 1892, 1897, 1901, 1905, 1910, 1914, 1919, 1923, 1928, 1932, 1936,
     1941, 1945, 1950, 1954, 1959, 1963, 1968, 1972, 1977, 1982, 1986, 1991, 1995, 2000, 2004, 2009,
     2014, 2018, 2023, 2028, 2032, 2037, 2042, 2046, 2051, 2056, 2061, 2065, 2070, 2075, 2080, 2084,
     2089, 2094, 2099, 2104, 2109, 2113, 2118, 2123, 2128, 2133, 2138, 2143, 2148, 2153, 2158, 2163,
     2168, 2173, 2178, 2183, 2188, 2193, 2198, 2203, 2208, 2213, 2218, 2223, 2228, 2234, 2239, 2244,
     2249, 2254, 2259, 2265, 2270, 2275, 2280, 2286, 2291, 2296, 2301, 2307, 2312, 2317, 2323, 2328,
     2333, 2339, 2344, 2350, 2355, 2360, 2366, 2371, 2377, 2382, 2388, 2393, 2399, 2404, 2410, 2415,
     2421, 2427, 2432, 2438, 2443, 2449, 2455, 2460, 2466, 2472, 2477, 2483, 2489, 2495, 2500, 2506,
     2512, 2518, 2523, 2529, 2535, 2541, 2547, 2553, 2559, 2564, 2570, 2576, 2582, 2588, 2594, 2600,
     2606, 2612, 2618, 2624, 2630, 2636, 2642, 2649, 2655, 2661, 2667, 2673, 2679, 2685, 2692, 2698,
     2704, 2710, 2716, 2723, 2729, 2735, 2742, 2748, 2754, 2761, 2767, 2773, 2780, 2786, 2793, 2799,
     2805, 2812, 2818, 2825, 2831, 2838, 2844, 2851, 2858, 2864, 2871, 2877, 2884, 2891, 2897, 2904,
     2911, 2917, 2924, 2931, 2938, 2944, 2951, 2958, 2965, 2972, 2979, 2985, 2992, 2999, 3006, 3013,
     3020, 3027, 3034, 3041, 3048, 3055, 3062, 3069, 3076, 3083, 3090, 3097, 3105, 3112, 3119, 3126,
     3133, 3141, 3148, 3155, 3162, 3170, 3177, 3184, 3192, 3199, 3206, 3214, 3221, 3228, 3236, 3243,
     3251, 3258, 3266, 3273, 3281, 3289, 3296, 3304, 3311, 3319, 3327, 3334, 3342, 3350, 3357, 3365,
     3373, 3381, 3388, 3396, 3404, 3412, 3420, 3428, 3436, 3443, 3451, 3459, 3467, 3475, 3483, 3491,
     3499, 3508, 3516, 3524, 3532, 3540, 3548, 3556, 3565, 3573, 3581, 3589, 3597, 3606, 3614, 3622,
     3631, 3639, 3648, 3656, 3664, 3673, 3681, 3690, 3698, 3707, 3715, 3724, 3733, 3741, 3750, 3758,
     3767, 3776, 3784, 3793, 3802, 3811, 3819, 3828, 3837, 3846, 3855, 3864, 3873, 3882, 3890, 3899,
     3908, 3917, 3926, 3936, 3945, 3954, 3963, 3972, 3981, 3990, 3999, 4009, 4018, 4027, 4036, 4046,
     4055, 4064, 4074, 4083, 4093, 4102, 4111, 4121, 4130, 4140, 4150, 4159, 4169, 4178, 4188, 4198,
     4207, 4217, 4227, 4236, 4246, 4256, 4266, 4276, 4285, 4295, 4305, 4315, 4325, 4335, 4345, 4355,
     4365, 4375, 4385, 4395, 4406, 4416, 4426, 4436, 4446, 4457, 4467, 4477, 4487, 4498, 4508, 4519,
     4529, 4539, 4550, 4560, 4571, 4581, 4592, 4603, 4613, 4624, 4634, 4645, 4656, 4667, 4677, 4688,
     4699, 4710, 4721, 4732, 4742, 4753, 4764, 4775, 4786, 4797, 4808, 4819, 4831, 4842, 4853, 4864,
     4875, 4887, 4898, 4909, 4920, 4932, 4943, 4955, 4966, 4977, 4989, 5000, 5012, 5023, 5035, 5047,
     5058, 5070, 5082, 5093, 5105, 5117, 5129, 5140, 5152, 5164, 5176, 5188, 5200, 5212, 5224, 5236,
     5248, 5260, 5272, 5284, 5297, 5309, 5321, 5333, 5346, 5358, 5370, 5383, 5395, 5408, 5420, 5433,
     5445, 5458, 5470, 5483, 5495, 5508, 5521, 5534, 5546, 5559, 5572, 5585, 5598, 5610, 5623, 5636,
     5649, 5662, 5675, 5689, 5702, 5715, 5728, 5741, 5754, 5768, 5781, 5794, 5808, 5821, 5834, 5848,
     5861, 5875, 5888, 5902, 5916, 5929, 5943, 5957, 5970, 5984, 5998, 6012, 6026, 6039, 6053, 6067,
     6081, 6095, 6109, 6124, 6138, 6152, 6166, 6180, 6194, 6209, 6223, 6237, 6252, 6266, 6281, 6295,
     6310, 6324, 6339, 6353, 6368, 6383, 6397, 6412, 6427, 6442, 6457, 6471, 6486, 6501, 6516, 6531,
     6546, 6561, 6577, 6592, 6607, 6622, 6637, 6653, 6668, 6683, 6699, 6714, 6730, 6745, 6761, 6776,
     6792, 6808, 6823, 6839, 6855, 6871, 6887, 6902, 6918, 6934, 6950, 6966, 6982, 6998, 7015, 7031,
     7047, 7063, 7079, 7096, 7112, 7129, 7145, 7161, 7178, 7194, 7211, 7228, 7244, 7261, 7278, 7295,
     7311, 7328, 7345, 7362, 7379, 7396, 7413, 7430, 7447, 7464, 7482, 7499, 7516, 7534, 7551, 7568,
     7586, 7603, 7621, 7638, 7656, 7674, 7691, 7709, 7727, 7745, 7762, 7780, 7798, 7816, 7834, 7852,
     7870, 7889, 7907, 7925, 7943, 7962, 7980, 7998, 8017, 8035, 8054, 8072, 8091, 8110, 8128, 8147,
     8166, 8185, 8204, 8222, 8241, 8260, 8279, 8299, 8318, 8337, 8356, 8375, 8395, 8414, 8433, 8453,
     8472, 8492, 8511, 8531, 8551, 8570, 8590, 8610, 8630, 8650, 8670, 8690, 8710, 8730, 8750, 8770,
     8790, 8810, 8831, 8851, 8872, 8892, 8913, 8933, 8954, 8974, 8995, 9016, 9036, 9057, 9078, 9099,
     9120, 9141, 9162, 9183, 9204, 9226, 9247, 9268, 9290, 9311, 9333, 9354, 9376, 9397, 9419, 9441,
     9462, 9484, 9506, 9528, 9550, 9572, 9594, 9616, 9638, 9661, 9683, 9705, 9727, 9750, 9772, 9795,
     9817, 9840, 9863, 9886, 9908, 9931, 9954, 9977, 10000
  >>

RECURSIVE Pow10Int(_)
Pow10Int(q) == IF q <= 0 THEN 1 ELSE 10 * Pow10Int(q - 1)

\* 10f32.powf(y)
powf10(y) ==
    CASE is_nan(y) -> NaN
      [] y.t = "pinf" -> PInf
      [] y.t = "ninf" -> Zero
      [] OTHER ->
            LET q == y.v \div Scale
                r == y.v % Scale
                m == Pow10Tab[r + 1]
            IN  IF q >= 0 THEN F(m * Pow10Int(q)) ELSE F(Rnd(m, Pow10Int(-q)))

\* The largest i in lo .. hi with Pow10Tab[i + 1] <= m (Pow10Tab[lo + 1] <= m).
RECURSIVE TabFloor(_, _, _)
TabFloor(m, lo, hi) ==
    IF lo >= hi THEN lo
    ELSE LET mid == (lo + hi + 1) \div 2
         IN  IF Pow10Tab[mid + 1] <= m THEN TabFloor(m, mid, hi)
             ELSE TabFloor(m, lo, mid - 1)

\* The decade of n > 0: the q with 10^q <= n / Scale < 10^(q + 1).
RECURSIVE Decade(_)
Decade(n) ==
    IF n >= 10 * Scale THEN 1 + Decade(n \div 10)
    ELSE IF n < Scale THEN Decade(n * 10) - 1
    ELSE 0

\* x.log(10.0)
log10(x) ==
    CASE is_nan(x) -> NaN
      [] x.t = "pinf" -> PInf
      [] x.t = "ninf" -> NaN
      [] x.v < 0 -> NaN
      [] x.v = 0 -> NInf
      [] OTHER ->
            LET q == Decade(x.v)
                m == IF q >= 0 THEN Rnd(x.v, Pow10Int(q)) ELSE x.v * Pow10Int(-q)
                i == TabFloor(m, 0, Scale)
                j == IF i < Scale /\ Pow10Tab[i + 2] - m < m - Pow10Tab[i + 1]
                     THEN i + 1 ELSE i
            IN  F(q * Scale + j)


\* `x as usize`: truncates toward zero, saturates, NaN becomes 0.
as_usize(x) ==
    CASE is_nan(x) -> 0
      [] x.t = "ninf" -> 0
      [] x.t = "pinf" -> 2147483647
      [] OTHER -> IF x.v <= 0 THEN 0 ELSE x.v \div Scale

\* Option<T>
None == <<>>
Some(x) == <<x>>
is_some(o) == o # None
unwrap_or(o, d) == IF o = None THEN d ELSE o[1]

\* std::f32::consts::PI and TAU = 2 * PI on the grid.
PI == F(3142)
TAU == F(2 * 3142)

\* ------------------------------------------------------- configuration

\* KnobConfig::new: the options the frame update and the renderer read.
\* allow_scroll and logarithmic_scaling are read and set by widget.rs (lines 168,
\* 172, 183, 212) but not listed in config.rs; they start off, the state that
\* with_middle_scroll and with_logarithmic_scaling exist to change.
KnobConfig_new ==
    [ step |-> None,
      min_angle |-> Fneg(PI),
      max_angle |-> Fmul(PI, F(Scale \div 2)),
      drag_sensitivity |-> F(5),
      show_background_arc |-> TRUE,
      show_filled_segments |-> TRUE,
      reset_value |-> None,
      allow_scroll |-> FALSE,
      logarithmic_scaling |-> FALSE,
      size |-> F(40 * Scale),
      font_size |-> F(12 * Scale),
      stroke_width |-> F(2 * Scale),
      label |-> None,
      label_position |-> "Bottom",
      label_offset |-> One ]

\* Knob::new(value, min, max, style)
Knob_new(min, max) == [min |-> min, max |-> max, config |-> KnobConfig_new]

\* f32::rem_euclid(1.0): the fractional turn in [0, 1); NaN for an infinite start.
rem_euclid_1(x) == IF is_fin(x) THEN F(x.v % Scale) ELSE NaN

\* with_sweep_range without the wrap of the start into one turn, for comparison
\* with sweep_range below.
sweep_range_no_wrap(config, start_angle_normalized, range) ==
    IF is_nan(start_angle_normalized) \/ is_nan(range)
    THEN config
    ELSE LET min_angle == Fadd(Fmul(start_angle_normalized, TAU),
                               Fdiv(PI, F(2 * Scale)))
         IN  [config EXCEPT
                !.min_angle = min_angle,
                !.max_angle = Fadd(min_angle, Fmul(f32_max(range, Zero), TAU))]

\* with_sweep_range with a guard that tests the start only, for comparison with
\* sweep_range below.
sweep_range_start_guard(config, start_angle_normalized, range) ==
    IF is_nan(start_angle_normalized)
    THEN config
    ELSE LET min_angle == Fadd(Fmul(rem_euclid_1(start_angle_normalized), TAU),
                               Fdiv(PI, F(2 * Scale)))
         IN  [config EXCEPT
                !.min_angle = min_angle,
                !.max_angle = Fadd(min_angle, Fmul(f32_max(range, Zero), TAU))]

\* Knob::with_sweep_range: the configuration after the call.  A NaN argument
\* returns the knob as it is.
sweep_range(config, start_angle_normalized, range) ==
    IF is_nan(start_angle_normalized) \/ is_nan(range)
    THEN config
    ELSE LET min_angle == Fadd(Fmul(rem_euclid_1(start_angle_normalized), TAU),
                               Fdiv(PI, F(2 * Scale)))
         IN  [config EXCEPT
                !.min_angle = min_angle,
                !.max_angle = Fadd(min_angle, Fmul(f32_max(range, Zero), TAU))]


\* ------------------------------------------------------------ renderer

\* KnobRenderer::new(&config, value, raw, min, max)
KnobRenderer_new(config, value, raw, min, max) ==
    [config |-> config, value |-> value, raw |-> raw, min |-> min, max |-> max]

\* KnobRenderer::compute_angle
compute_angle(self) ==
    IF Feq(self.min, self.max) \/ is_nan(self.raw)
    THEN self.config.min_angle
    ELSE Fadd(self.config.min_angle,
              Fmul(self.raw, Fsub(self.config.max_angle, self.config.min_angle)))

\* The number of sampled points of the background arc is segments + 1.
segments == 128

\* KnobRenderer::render_background_arc: the angle of sampled point i,
\* arc_start + (arc_end - arc_start) * (i / segments)
arc_point_angle(self, i) ==
    Fadd(self.config.min_angle,
         Fmul(Fsub(self.config.max_angle, self.config.min_angle),
              Fdiv(F(i * Scale), F(segments * Scale))))

\* KnobRenderer::render_background_arc: (segments as f32 * raw.clamp(0, 1)) as usize
filled_segments(self) ==
    as_usize(Fmul(F(segments * Scale), clamp(self.raw, Zero, One)))

\* KnobRenderer::render_background_arc: the indices of the points of the filled
\* polyline; empty when no filled segment is drawn.
fill_points(self) ==
    IF self.config.show_background_arc /\ self.config.show_filled_segments
       /\ filled_segments(self) > 0
    THEN 0 .. filled_segments(self)
    ELSE {}

\* The decimal digits of a natural number, most significant first.
RECURSIVE Digits(_)
Digits(n) ==
    IF n < 10 THEN <<n>> ELSE Digits(n \div 10) \o <<n % 10>>

\* The default label_format, format!("{:.2}", v): sign, integer digits, a point
\* and two decimals, rounded to the nearest hundredth.
label_format(v) ==
    IF is_nan(v) THEN <<"N", "a", "N">>
    ELSE IF ~is_fin(v) THEN (IF Sign(v) < 0 THEN <<"-">> ELSE <<>>) \o <<"i", "n", "f">>
    ELSE LET hundredths == Rnd(Abs(v.v) * 100, Scale)
         IN  (IF v.v < 0 THEN <<"-">> ELSE <<>>)
             \o Digits(hundredths \div 100)
             \o <<".">>
             \o <<(hundredths % 100) \div 10, hundredths % 10>>

\* format!("{}: {}", label, (label_format)(v))
label_text(label, v) == label \o <<":", " ">> \o label_format(v)

\* The host's text layout, ui.painter().layout(text, font_id, ..).size(): one row
\* of the font's height, every character half the font size wide.
layout_size(text, font_size) ==
    [ x |-> Fmul(F(Len(text) * Scale), Fdiv(font_size, F(2 * Scale))),
      y |-> font_size ]

\* A size measured on the text of the live value, for comparison with
\* calculate_size below.
calculate_size_live(self) ==
    LET knob_size == Fadd(self.config.size,
                          Fmul(self.config.stroke_width, F(2 * Scale)))
        label_size ==
            IF is_some(self.config.label)
            THEN layout_size(label_text(self.config.label[1], self.value),
                             self.config.font_size)
            ELSE [x |-> Zero, y |-> Zero]
        label_padding == F(8 * Scale)
    IN  IF self.config.label_position \in {"Top", "Bottom"}
        THEN [ x |-> f32_max(knob_size,
                             Fadd(label_size.x, Fmul(label_padding, F(2 * Scale)))),
               y |-> Fadd(Fadd(Fadd(knob_size, label_size.y), label_padding),
                          self.config.label_offset) ]
        ELSE [ x |-> Fadd(Fadd(Fadd(knob_size, label_size.x), label_padding),
                          self.config.label_offset),
               y |-> f32_max(knob_size, Fadd(label_size.y, label_padding)) ]

\* KnobRenderer::calculate_size: the size the frame allocates.
calculate_size(self) ==
    LET knob_size == Fadd(self.config.size,
                          Fmul(self.config.stroke_width, F(2 * Scale)))
        label_size ==
            IF is_some(self.config.label)
            THEN layout_size(label_text(self.config.label[1], self.max),
                             self.config.font_size)
            ELSE [x |-> Zero, y |-> Zero]
        label_padding == F(8 * Scale)
    IN  IF self.config.label_position \in {"Top", "Bottom"}
        THEN [ x |-> f32_max(knob_size,
                             Fadd(label_size.x, Fmul(label_padding, F(2 * Scale)))),
               y |-> Fadd(Fadd(Fadd(knob_size, label_size.y), label_padding),
                          self.config.label_offset) ]
        ELSE [ x |-> Fadd(Fadd(Fadd(knob_size, label_size.x), label_padding),
                          self.config.label_offset),
               y |-> f32_max(knob_size, Fadd(label_size.y, label_padding)) ]

\* KnobRenderer::render_label: the text drawn, none without a label.
render_label(self) ==
    IF is_some(self.config.label)
    THEN Some(label_text(self.config.label[1], self.value))
    ELSE None

\* -------------------------------------------- Knob::ui (src/src/widget.rs)

\* One frame's input, as the host's Response and input events report it.
Input(dragged, dx, dy, hovered, wheel, double_clicked) ==
    [ dragged |-> dragged,
      drag_delta |-> [x |-> dx, y |-> dy],
      hovered |-> hovered,
      wheel |-> wheel,
      double_clicked |-> double_clicked ]

\* The NaN guard at the start of ui.
coerce_nan(self, value) == IF is_nan(value) THEN self.min ELSE value

\* value -> raw at the start of the frame
to_raw(self, value) ==
    IF self.config.logarithmic_scaling
    THEN log10(remap(value, self.min, self.max, One, F(10 * Scale)))
    ELSE remap(value, self.min, self.max, Zero, One)

\* The drag branch: move raw by the vertical delta, clamp, snap to the step.
drag_raw(self, raw, delta) ==
    LET step == unwrap_or(self.config.step, self.config.drag_sensitivity)
        moved == clamp(Fsub(raw, Fmul(delta, step)), Zero, One)
    IN  IF is_some(self.config.step)
        THEN LET steps == round(Fdiv(moved, self.config.step[1]))
             IN  clamp(Fmul(steps, self.config.step[1]), Zero, One)
        ELSE moved

\* The scroll branch: the first MouseWheel event of the frame, if any.
scroll_raw(self, raw, wheel) ==
    IF is_some(wheel)
    THEN clamp(Fadd(raw, Fmul(wheel[1],
                   unwrap_or(self.config.step, self.config.drag_sensitivity))),
               Zero, One)
    ELSE raw

\* A frame that applies the scroll on top of the drag, for comparison with
\* gesture_raw below.
gesture_raw_additive(self, raw, in) ==
    LET dragged == IF in.dragged THEN drag_raw(self, raw, in.drag_delta.y) ELSE raw
    IN  IF in.hovered /\ self.config.allow_scroll
        THEN scroll_raw(self, dragged, in.wheel)
        ELSE dragged

\* raw after the frame's gesture: a drag first, else a scroll while hovered.
gesture_raw(self, raw, in) ==
    IF in.dragged THEN drag_raw(self, raw, in.drag_delta.y)
    ELSE IF in.hovered /\ self.config.allow_scroll THEN scroll_raw(self, raw, in.wheel)
    ELSE raw

\* response.mark_changed() is called in the drag branch only.
marks_changed(self, in) == in.dragged

\* A conversion back that skips the power of ten of the logarithmic scale, for
\* comparison with from_raw below.
from_raw_linear(self, raw) == remap(raw, Zero, One, self.min, self.max)

\* raw -> value at the end of the frame
from_raw(self, raw) ==
    IF self.config.logarithmic_scaling
    THEN remap(powf10(raw), One, F(10 * Scale), self.min, self.max)
    ELSE remap(raw, Zero, One, self.min, self.max)

\* A reset that yields to a drag in the same frame, for comparison with reset below.
reset_unless_dragged(self, value, in) ==
    IF in.double_clicked /\ ~in.dragged /\ is_some(self.config.reset_value)
    THEN self.config.reset_value[1]
    ELSE value

\* The double-click reset, after the value was computed from raw.
reset(self, value, in) ==
    IF in.double_clicked /\ is_some(self.config.reset_value)
    THEN self.config.reset_value[1]
    ELSE value

\* Knob::ui: what one frame computes from the knob, the host's value and the input.
ui_frame(self, value, in) ==
    LET v0 == coerce_nan(self, value)
        raw0 == to_raw(self, v0)
        raw == gesture_raw(self, raw0, in)
        renderer == KnobRenderer_new(self.config, v0, raw0, self.min, self.max)
        written == reset(self, from_raw(self, raw), in)
        updated_renderer ==
            KnobRenderer_new(self.config, written, raw, self.min, self.max)
    IN  [ impl |-> "widget",
          size |-> calculate_size(renderer),
          label |-> render_label(updated_renderer),
          input |-> in,
          before |-> value,
          raw0 |-> raw0,
          raw |-> raw,
          value |-> written,
          changed |-> marks_changed(self, in),
          panicked |-> FALSE,
          angle |-> compute_angle(updated_renderer),
          fill |-> fill_points(updated_renderer),
          fill_end |-> arc_point_angle(updated_renderer,
                                       filled_segments(updated_renderer)) ]


\* ----------------------------------------------- Knob::ui (src/src/lib.rs)

\* Knob::compute_angle of the monolithic widget
lib_compute_angle(self, value) ==
    IF Feq(self.min, self.max) \/ is_nan(value)
    THEN self.config.min_angle
    ELSE Fadd(self.config.min_angle,
              Fmul(Fdiv(Fsub(value, self.min), Fsub(self.max, self.min)),
                   Fsub(self.config.max_angle, self.config.min_angle)))

lib_segments == 64

\* (segments as f32 * ((value - min) / (max - min)).clamp(0, 1)) as usize
lib_filled_segments(self, value) ==
    as_usize(Fmul(F(lib_segments * Scale),
                  clamp(Fdiv(Fsub(value, self.min), Fsub(self.max, self.min)),
                        Zero, One)))

\* The filled polyline of the monolithic widget: points 0 ..= filled_segments.
lib_fill_points(self, value) ==
    IF self.config.show_background_arc /\ self.config.show_filled_segments
    THEN 0 .. lib_filled_segments(self, value)
    ELSE {}

\* Knob::ui: adjusted_size, the size the frame allocates.
lib_adjusted_size(self) ==
    LET knob_size == self.config.size
        label_size ==
            IF is_some(self.config.label)
            THEN layout_size(label_text(self.config.label[1], self.max),
                             self.config.font_size)
            ELSE [x |-> Zero, y |-> Zero]
        label_padding == F(2 * Scale)
    IN  IF self.config.label_position \in {"Top", "Bottom"}
        THEN [ x |-> f32_max(knob_size,
                             Fadd(label_size.x, Fmul(label_padding, F(2 * Scale)))),
               y |-> Fadd(Fadd(Fadd(knob_size, label_size.y),
                               Fmul(label_padding, F(2 * Scale))),
                          self.config.label_offset) ]
        ELSE [ x |-> Fadd(Fadd(Fadd(knob_size, label_size.x),
                               Fmul(label_padding, F(2 * Scale))),
                          self.config.label_offset),
               y |-> f32_max(knob_size,
                             Fadd(label_size.y, Fmul(label_padding, F(2 * Scale)))) ]

\* Knob::ui: the label text drawn, none without a label.
lib_label(self, value) ==
    IF is_some(self.config.label)
    THEN Some(label_text(self.config.label[1], value))
    ELSE None

\* The drag branch panics in f32::clamp unless min <= max.
lib_drag_panics(self) == clamp_panics(self.min, self.max)

\* The drag branch: move the value by the vertical delta, clamp, snap, guard NaN.
lib_drag_value(self, value, delta) ==
    LET range == Fsub(self.max, self.min)
        step == unwrap_or(self.config.step, Fmul(range, self.config.drag_sensitivity))
        new_value == clamp(Fsub(value, Fmul(delta, step)), self.min, self.max)
        snapped ==
            IF is_some(self.config.step)
            THEN LET steps == round(Fdiv(Fsub(new_value, self.min), self.config.step[1]))
                 IN  clamp(Fadd(self.min, Fmul(steps, self.config.step[1])),
                           self.min, self.max)
            ELSE new_value
    IN  IF is_nan(snapped) THEN self.min ELSE snapped

\* Knob::ui of the monolithic widget.
lib_ui_frame(self, value, in) ==
    LET v0 == coerce_nan(self, value)
        panicked == in.dragged /\ lib_drag_panics(self)
        written == IF in.dragged /\ ~panicked
                   THEN lib_drag_value(self, v0, in.drag_delta.y)
                   ELSE v0
    IN  [ impl |-> "lib",
          size |-> lib_adjusted_size(self),
          label |-> lib_label(self, written),
          input |-> in,
          before |-> value,
          raw0 |-> NaN,
          raw |-> NaN,
          value |-> written,
          changed |-> in.dragged /\ ~panicked,
          panicked |-> panicked,
          angle |-> lib_compute_angle(self, written),
          fill |-> lib_fill_points(self, written),
          fill_end |-> NaN ]

\* --------------------------------------------------------- the machine

\* The largest drag the host reports in one frame, in points.
MaxDrag == 1000

Impls == {"widget", "lib"}

\* (min, max) of the knobs built: unit, wide, positive (for the logarithmic
\* scale), degenerate and reversed ranges.
Ranges ==
    { <<F(0), F(1000)>>, <<F(0), F(100000)>>, <<F(1000), F(10000)>>,
      <<F(1000), F(1000)>>, <<F(1000), F(0)>> }

\* The host's value before the first frame.
StartValues == {NaN, F(0), F(3333), F(50000)}

Call(op, arg) == [op |-> op, arg |-> arg]

\* The builder chains of the host's call sites, by the widget they are written for.
Chains(i) ==
    IF i = "widget"
    THEN { <<>>,
           <<Call("with_step", Some(F(50)))>>,
           <<Call("with_step", Some(F(0)))>>,
           <<Call("with_step", Some(F(-50)))>>,
           <<Call("with_drag_sensitivity", F(50))>>,
           <<Call("with_double_click_reset", F(500))>>,
           <<Call("with_middle_scroll", TRUE)>>,
           <<Call("with_logarithmic_scaling", TRUE)>>,
           <<Call("with_step", Some(F(50))), Call("with_logarithmic_scaling", TRUE)>>,
           <<Call("with_step", Some(F(50))), Call("with_middle_scroll", TRUE)>>,
           <<Call("with_double_click_reset", F(500)), Call("with_middle_scroll", TRUE)>>,
           <<Call("with_logarithmic_scaling", TRUE), Call("with_middle_scroll", TRUE)>>,
           <<Call("with_step", Some(F(300))), Call("with_middle_scroll", TRUE)>> }
    ELSE { <<>>,
           <<Call("with_step", Some(F(250)))>>,
           <<Call("with_step", Some(F(0)))>>,
           <<Call("with_step", Some(F(-250)))>> }

\* The call sites that set up what is drawn: the sweep range (wrapping and negative
\* arguments, a full turn, more than a full turn, NaN and infinite arguments, a
\* second call after a first) and the label.
SweepCall(start, range) ==
    Call("with_sweep_range", [start_angle_normalized |-> start, range |-> range])

LabelCall(label, position) ==
    Call("with_label", [label |-> label, position |-> position])

DisplayChains ==
    { <<SweepCall(F(1300), F(-200))>>,
      <<SweepCall(F(300), F(0))>>,
      <<SweepCall(F(500), F(1000))>>,
      <<SweepCall(F(500), F(1000)), SweepCall(NaN, F(250))>>,
      <<SweepCall(F(250), NaN)>>,
      <<SweepCall(PInf, F(500))>>,
      <<SweepCall(F(-250), F(1500))>>,
      <<LabelCall(<<"G", "a", "i", "n">>, "Bottom")>>,
      <<LabelCall(<<"G", "a", "i", "n">>, "Left")>> }

DisplayRanges == { <<F(0), F(100000)>> }

DisplayStartValues == { F(50000) }

\* The vertical drag deltas of a frame: none, ten points and the largest, both ways.
DeltaYs == {F(-MaxDrag * Scale), F(-10 * Scale), F(0), F(10 * Scale), F(MaxDrag * Scale)}

\* The frames' inputs.  Without a drag: nothing, hovering, a wheel event with the
\* pointer away, a wheel event while hovering (up and down), a double click, a double
\* click with a wheel event.  With a drag: each delta alone, a small one together
\* with a hovered wheel event, and one together with a double click.
Wheel == Some(F(10 * Scale))

Inputs ==
    { Input(FALSE, Zero, Zero, FALSE, None, FALSE),
      Input(FALSE, Zero, Zero, TRUE, None, FALSE),
      Input(FALSE, Zero, Zero, FALSE, Wheel, FALSE),
      Input(FALSE, Zero, Zero, TRUE, Wheel, FALSE),
      Input(FALSE, Zero, Zero, TRUE, Some(F(-10 * Scale)), FALSE),
      Input(FALSE, Zero, Zero, TRUE, None, TRUE),
      Input(FALSE, Zero, Zero, TRUE, Wheel, TRUE) }
    \cup
    { Input(TRUE, Zero, dy, FALSE, None, FALSE) : dy \in DeltaYs }
    \cup
    { Input(TRUE, Zero, dy, TRUE, Wheel, FALSE) : dy \in {F(-10 * Scale), F(10 * Scale)} }
    \cup
    { Input(TRUE, Zero, dy, TRUE, None, TRUE) : dy \in {F(-10 * Scale), F(MaxDrag * Scale)} }
    \cup
    { Input(TRUE, F(MaxDrag * Scale), F(-10 * Scale), FALSE, None, FALSE) }

VARIABLES
    impl,     \* which widget the crate builds: "widget" (widget.rs) or "lib" (lib.rs)
    knob,     \* the Knob of the call site, built identically for every frame
    chain,    \* the builder calls of the call site still to make
    value,    \* the host's f32 the knob borrows
    phase,    \* "build": the builder chain runs; "run": frames; "halted": panicked
    call,     \* the last builder call made, with the knob it was made on
    frame     \* what the last frame read, computed and drew

vars == <<impl, knob, chain, value, phase, call, frame>>

NoFrame == [impl |-> "none"]

NoCall == [op |-> "none"]

\* The builder call at the head of the chain, as the history records it.
Calling == [op |-> Head(chain).op, arg |-> Head(chain).arg, before |-> knob]

Init ==
    /\ impl \in Impls
    /\ \/ /\ \E r \in Ranges : knob = Knob_new(r[1], r[2])
          /\ chain \in Chains(impl)
          /\ value \in StartValues
       \/ /\ \E r \in DisplayRanges : knob = Knob_new(r[1], r[2])
          /\ chain \in DisplayChains
          /\ value \in DisplayStartValues
    /\ phase = "build"
    /\ call = NoCall
    /\ frame = NoFrame

\* The builder calls: the next call of the chain, with its argument.
with_step ==
    /\ phase = "build"
    /\ chain # <<>>
    /\ Head(chain).op = "with_step"
    /\ knob' = [knob EXCEPT !.config.step = Head(chain).arg]
    /\ chain' = Tail(chain)
    /\ call' = Calling
    /\ UNCHANGED <<impl, value, phase, frame>>

with_drag_sensitivity ==
    /\ phase = "build"
    /\ chain # <<>>
    /\ Head(chain).op = "with_drag_sensitivity"
    /\ knob' = [knob EXCEPT !.config.drag_sensitivity = Head(chain).arg]
    /\ chain' = Tail(chain)
    /\ call' = Calling
    /\ UNCHANGED <<impl, value, phase, frame>>

with_double_click_reset ==
    /\ phase = "build"
    /\ chain # <<>>
    /\ Head(chain).op = "with_double_click_reset"
    /\ knob' = [knob EXCEPT !.config.reset_value = Some(Head(chain).arg)]
    /\ chain' = Tail(chain)
    /\ call' = Calling
    /\ UNCHANGED <<impl, value, phase, frame>>

with_middle_scroll ==
    /\ phase = "build"
    /\ chain # <<>>
    /\ Head(chain).op = "with_middle_scroll"
    /\ knob' = [knob EXCEPT !.config.allow_scroll = TRUE]
    /\ chain' = Tail(chain)
    /\ call' = Calling
    /\ UNCHANGED <<impl, value, phase, frame>>

with_logarithmic_scaling ==
    /\ phase = "build"
    /\ chain # <<>>
    /\ Head(chain).op = "with_logarithmic_scaling"
    /\ knob' = [knob EXCEPT !.config.logarithmic_scaling = TRUE]
    /\ chain' = Tail(chain)
    /\ call' = Calling
    /\ UNCHANGED <<impl, value, phase, frame>>

with_sweep_range ==
    /\ phase = "build"
    /\ chain # <<>>
    /\ Head(chain).op = "with_sweep_range"
    /\ knob' = [knob EXCEPT
                  !.config = sweep_range(knob.config,
                                         Head(chain).arg.start_angle_normalized,
                                         Head(chain).arg.range)]
    /\ chain' = Tail(chain)
    /\ call' = Calling
    /\ UNCHANGED <<impl, value, phase, frame>>

with_label ==
    /\ phase = "build"
    /\ chain # <<>>
    /\ Head(chain).op = "with_label"
    /\ knob' = [knob EXCEPT
                  !.config.label = Some(Head(chain).arg.label),
                  !.config.label_position = Head(chain).arg.position]
    /\ chain' = Tail(chain)
    /\ call' = Calling
    /\ UNCHANGED <<impl, value, phase, frame>>

\* A frame of the modular widget: ui(self, ui) writes the value back.
ui ==
    /\ impl = "widget"
    /\ phase \in {"build", "run"}
    /\ chain = <<>>
    /\ \E in \in Inputs :
         /\ frame' = ui_frame(knob, value, in)
         /\ value' = frame'.value
    /\ phase' = "run"
    /\ UNCHANGED <<impl, knob, chain, call>>

\* A frame of the monolithic widget; a panic ends the program.
lib_ui ==
    /\ impl = "lib"
    /\ phase \in {"build", "run"}
    /\ chain = <<>>
    /\ \E in \in Inputs :
         /\ frame' = lib_ui_frame(knob, value, in)
         /\ value' = frame'.value
         /\ phase' = IF frame'.panicked THEN "halted" ELSE "run"
    /\ UNCHANGED <<impl, knob, chain, call>>

Next ==
    \/ with_step
    \/ with_drag_sensitivity
    \/ with_double_click_reset
    \/ with_middle_scroll
    \/ with_logarithmic_scaling
    \/ with_sweep_range
    \/ with_label
    \/ ui
    \/ lib_ui

Spec == Init /\ [][Next]_vars

\* ---------------------------------------------------------------- claims

\* lo <= x <= hi
InRange(x, lo, hi) == Fle(lo, x) /\ Fle(x, hi)

\* A frame ran to its end.
Framed == frame.impl \in Impls /\ ~frame.panicked

\* The frame had no drag, no wheel event and no double click.
NoInput(in) == ~in.dragged /\ in.wheel = None /\ ~in.double_clicked

\* C1 (as stated): after every frame, whatever its input and the starting value, the
\* value written back lies in [min, max] when min < max.
C1_ValueInRange ==
    Framed /\ Flt(knob.min, knob.max) => InRange(value, knob.min, knob.max)

\* C2 (as stated): for min < max and a starting value in [min, max], a drag frame with
\* any vertical delta, with or without an explicit step, leaves raw in [0, 1] and
\* the value written back in [min, max].
C2_DragClamped ==
    Framed /\ frame.input.dragged /\ ~frame.input.double_clicked
        /\ Flt(knob.min, knob.max) /\ InRange(frame.before, knob.min, knob.max)
    => /\ frame.impl = "widget" => InRange(frame.raw, Zero, One)
       /\ InRange(value, knob.min, knob.max)

\* C3: a double click with a reset value configured writes the reset value back,
\* whatever drag or scroll the frame also processed; with none configured the value
\* written back is the one computed from the frame's raw.
C3_ResetWins ==
    frame.impl = "widget" /\ frame.input.double_clicked
    => IF is_some(knob.config.reset_value)
       THEN value = knob.config.reset_value[1]
       ELSE value = from_raw(knob, frame.raw)

\* C3's case: a drag and a double click in one frame, the drag alone would have
\* written another value, and the reset value was written.
C3_Witness ==
    /\ frame.impl = "widget"
    /\ frame.input.double_clicked
    /\ frame.input.dragged
    /\ is_some(knob.config.reset_value)
    /\ frame.raw # frame.raw0
    /\ from_raw(knob, frame.raw) # knob.config.reset_value[1]
    /\ value = knob.config.reset_value[1]

\* A wheel event moved raw in the frame; a reset fired in the frame.
ScrollEvent(in) ==
    ~in.dragged /\ in.hovered /\ knob.config.allow_scroll /\ is_some(in.wheel)
ResetFired(in) == in.double_clicked /\ is_some(knob.config.reset_value)

\* C4 (as stated): the response is marked changed if and only if the frame had a
\* drag, a scroll event that moved raw, or a reset that fired.
C4_ChangedIff ==
    Framed =>
        (frame.changed <=>
            (frame.input.dragged \/ ScrollEvent(frame.input) \/ ResetFired(frame.input)))

\* C5 (as stated): a NaN value at the start of a frame without input is written
\* back as min, and the response is not marked changed.
C5_NaNCoerced ==
    Framed /\ is_nan(frame.before) /\ NoInput(frame.input)
    => value = knob.min /\ ~frame.changed

\* C6 (as stated, on a range with min < max and a starting value inside it): a frame
\* without drag, scroll event or double click writes back exactly the value it
\* started with and leaves raw as it was converted, in linear and logarithmic mode.
C6_IdleExact ==
    /\ Framed
    /\ NoInput(frame.input)
    /\ Flt(knob.min, knob.max)
    /\ InRange(frame.before, knob.min, knob.max)
    => /\ value = frame.before
       /\ frame.impl = "widget" => frame.raw = frame.raw0

\* raw is an integer multiple of the step s.
OnGrid(raw, s) ==
    is_fin(raw) /\ is_fin(s) /\ s.v # 0 /\ raw.v % Abs(s.v) = 0

\* C7 (as stated, for a step other than zero and a finite raw at the start of the
\* frame): with a step configured, raw after a frame that moved it, by drag or by
\* hover-scroll, is an integer multiple of the step or pinned to 0 or 1.
C7_RawOnStepGrid ==
    /\ frame.impl = "widget"
    /\ is_some(knob.config.step)
    /\ ~Feq(unwrap_or(knob.config.step, Zero), Zero)
    /\ is_fin(frame.raw0)
    /\ frame.input.dragged \/ ScrollEvent(frame.input)
    => OnGrid(frame.raw, knob.config.step[1]) \/ frame.raw \in {Zero, One}

\* Scenario A: min = 0, max = 100, value = 50, drag delta y = -10, default sensitivity.
ScenarioA ==
    /\ knob.min = F(0)
    /\ knob.max = F(100 * Scale)
    /\ knob.config = KnobConfig_new
    /\ frame.before = F(50 * Scale)
    /\ frame.input.dragged
    /\ frame.input.drag_delta.y = F(-10 * Scale)
    /\ ~frame.input.double_clicked

\* C8 (as stated): with no explicit step, a drag frame with vertical delta d moves raw
\* by -d * drag_sensitivity, clamped to [0, 1], and marks the response changed; in
\* Scenario A the frame writes back 55.
C8_DragMovesRaw ==
    frame.impl \in Impls /\ frame.input.dragged /\ knob.config.step = None
    => /\ ~frame.panicked
       /\ frame.changed
       /\ frame.impl = "widget" =>
            frame.raw = clamp(Fsub(frame.raw0,
                                   Fmul(frame.input.drag_delta.y,
                                        knob.config.drag_sensitivity)),
                              Zero, One)
       /\ ScenarioA => value = F(55 * Scale)

\* C9 (as stated): whatever the range, the starting value, the step and the input, a
\* frame completes and the value it writes back is a finite number.
C9_NeverHaltsNorNaN ==
    frame.impl \in Impls => ~frame.panicked /\ is_fin(value)

\* C10 (as stated): with min = max the indicator angle is min_angle and the filled
\* polyline reaches no further than the first point of the arc.
C10_DegenerateAngle ==
    frame.impl \in Impls /\ Feq(knob.min, knob.max)
    => frame.angle = knob.config.min_angle /\ frame.fill \subseteq {0}

\* The last builder call was with_sweep_range; its two arguments.
SweepCalled == call.op = "with_sweep_range"
SweepStart == call.arg.start_angle_normalized
SweepArg == call.arg.range

\* The fractional turn of a start, x - floor(x), and a quarter turn.
FracTurn(x) == IF is_fin(x) THEN F(x.v - Scale * (x.v \div Scale)) ELSE NaN
QuarterTurn == Fdiv(PI, F(2 * Scale))

C12_NaNSweepIgnored ==
    SweepCalled /\ (is_nan(SweepStart) \/ is_nan(SweepArg)) => knob = call.before

\* C12's case: a NaN call made after an earlier with_sweep_range, whose angles
\* (not the defaults) are still in place.
C12_Witness ==
    /\ SweepCalled
    /\ is_nan(SweepStart)
    /\ knob = call.before
    /\ knob.config.min_angle # KnobConfig_new.min_angle
    /\ knob.config.max_angle # KnobConfig_new.max_angle

\* C13 (as stated): max_angle >= min_angle for the default configuration and after
\* every sequence of builder calls.
C13_SweepOrdered == Fle(knob.config.min_angle, knob.config.max_angle)

\* The indicator angle the renderer computes for the knob at a given raw.
AngleAt(raw) ==
    compute_angle(KnobRenderer_new(knob.config, value, raw, knob.min, knob.max))

\* Positions along the sweep at which the angle is compared.
SampleRaws == {Zero, F(250), F(500), F(550), One}

\* C14 (as stated): on a range with min # max the indicator angle is
\* min_angle + raw * (max_angle - min_angle): min_angle at raw = 0, max_angle at
\* raw = 1, non-decreasing in raw; after with_sweep_range(0.5, 1.0) the angles at
\* raw = 0 and raw = 1 differ by one full turn.
C14_AngleFormula ==
    impl = "widget" /\ ~Feq(knob.min, knob.max)
    => /\ \A r \in SampleRaws :
            AngleAt(r) = Fadd(knob.config.min_angle,
                              Fmul(r, Fsub(knob.config.max_angle,
                                           knob.config.min_angle)))
       /\ Feq(AngleAt(Zero), knob.config.min_angle)
       /\ Feq(AngleAt(One), knob.config.max_angle)
       /\ \A r1, r2 \in SampleRaws : Fle(r1, r2) => Fle(AngleAt(r1), AngleAt(r2))
       /\ SweepCalled /\ SweepStart = F(500) /\ SweepArg = One
          => Feq(Fsub(AngleAt(One), AngleAt(Zero)), TAU)

\* C15 (as stated): whenever the filled segment is drawn for a raw in [0, 1], the
\* angle of its last point is the indicator angle of the frame.
C15_FillMeetsIndicator ==
    frame.impl = "widget" /\ frame.fill # {} /\ InRange(frame.raw, Zero, One)
    => frame.fill_end = frame.angle

\* A frame of the modular widget without drag, wheel event or double click: the
\* value is converted to raw and raw is converted back.
RoundTripFrame == frame.impl = "widget" /\ NoInput(frame.input)

\* The rounding the two conversions can accumulate, in units of the grid: half a
\* unit of raw spread over the range, plus the roundings of the interpolation; in
\* logarithmic mode the power of ten magnifies a unit of raw up to 10 ln 10 times.
RoundTripTolerance ==
    LET whole == (knob.max.v - knob.min.v) \div Scale
    IN  IF knob.config.logarithmic_scaling THEN 8 * whole + 2 ELSE whole \div 2 + 2

Close(a, b, tolerance) == is_fin(a) /\ is_fin(b) /\ Abs(a.v - b.v) <= tolerance

\* C16: for min < max and a value in [min, max] (min > 0 in logarithmic mode),
\* converting the value to raw and back returns the value to within the rounding
\* tolerance, and the raw in between lies in [0, 1].
C16_RoundTrip ==
    /\ RoundTripFrame
    /\ Flt(knob.min, knob.max)
    /\ InRange(frame.before, knob.min, knob.max)
    /\ knob.config.logarithmic_scaling => Flt(Zero, knob.min)
    => /\ InRange(frame.raw0, Zero, One)
       /\ frame.raw = frame.raw0
       /\ Close(value, frame.before, RoundTripTolerance)

\* C16's case: a round trip in logarithmic mode of a value strictly inside the
\* range, which comes back close to but not exactly as it went in.
C16_Witness ==
    /\ RoundTripFrame
    /\ knob.config.logarithmic_scaling
    /\ Flt(Zero, knob.min)
    /\ Flt(knob.min, frame.before)
    /\ Flt(frame.before, knob.max)
    /\ Flt(Zero, frame.raw0)
    /\ Flt(frame.raw0, One)
    /\ value # frame.before
    /\ Close(value, frame.before, RoundTripTolerance)

\* raw moved by a wheel delta: raw + delta * (step, or else drag_sensitivity),
\* clamped to [0, 1].
Scrolled(raw, delta) ==
    clamp(Fadd(raw, Fmul(delta, IF knob.config.step = None
                                THEN knob.config.drag_sensitivity
                                ELSE knob.config.step[1])),
          Zero, One)

\* C17: in a frame with a drag, raw is what the drag alone gives, whatever wheel
\* event the frame holds; without a drag, a wheel event moves raw by
\* delta * (step or else drag_sensitivity), clamped to [0, 1], when the pointer
\* hovers and scroll is enabled; otherwise raw stays as it was.
C17_GesturePriority ==
    frame.impl = "widget"
    => IF frame.input.dragged
       THEN frame.raw = drag_raw(knob, frame.raw0, frame.input.drag_delta.y)
       ELSE IF frame.input.hovered /\ knob.config.allow_scroll
               /\ frame.input.wheel # None
       THEN frame.raw = Scrolled(frame.raw0, frame.input.wheel[1])
       ELSE frame.raw = frame.raw0

\* C17's case: a drag and a wheel event over a knob with scroll enabled in one
\* frame; raw is the drag's, and the wheel event would have moved it further.
C17_Witness ==
    /\ frame.impl = "widget"
    /\ frame.input.dragged
    /\ frame.input.hovered
    /\ frame.input.wheel # None
    /\ knob.config.allow_scroll
    /\ frame.raw # frame.raw0
    /\ frame.raw = drag_raw(knob, frame.raw0, frame.input.drag_delta.y)
    /\ Scrolled(frame.raw, frame.input.wheel[1]) # frame.raw

\* C18: the size a frame allocates is the same in every frame of a knob, whatever
\* the value has become: it is measured on the label text of max, not of the value.
C18_SizeStable ==
    [][frame.impl \in Impls /\ frame'.impl \in Impls => frame'.size = frame.size]_vars

\* C18's case: a frame of a labelled knob that changed the value, drew a label
\* text of another length than the text of max, and allocated the size of the text
\* of max.
C18_Witness ==
    /\ frame.impl \in Impls
    /\ is_some(knob.config.label)
    /\ frame.value # frame.before
    /\ frame.label # None
    /\ Len(frame.label[1]) # Len(label_text(knob.config.label[1], knob.max))
    /\ knob.config.label_position = "Left"
    /\ frame.size.x =
         Fadd(Fadd(Fadd(IF impl = "widget"
                        THEN Fadd(knob.config.size,
                                  Fmul(knob.config.stroke_width, F(2 * Scale)))
                        ELSE knob.config.size,
                        layout_size(label_text(knob.config.label[1], knob.max),
                                    knob.config.font_size).x),
                   IF impl = "widget" THEN F(8 * Scale) ELSE F(4 * Scale)),
              knob.config.label_offset)

\* The frame that the same knob and value give for the same input with the
\* horizontal component of the drag delta removed.
VerticalFrame ==
    LET in == [frame.input EXCEPT !.drag_delta.x = Zero]
    IN  IF frame.impl = "widget"
        THEN ui_frame(knob, frame.before, in)
        ELSE lib_ui_frame(knob, frame.before, in)

\* C19 (as stated, for a starting value in [min, max]): a drag frame gives the raw
\* and value of the same drag without its horizontal component; for min < max and
\* a positive step and sensitivity a drag up (delta.y < 0) does not decrease the
\* value and a drag down (delta.y > 0) does not increase it.
C19_VerticalOnly ==
    /\ Framed
    /\ frame.input.dragged
    /\ ~frame.input.double_clicked
    /\ Flt(knob.min, knob.max)
    /\ InRange(frame.before, knob.min, knob.max)
    /\ Flt(Zero, knob.config.drag_sensitivity)
    /\ Flt(Zero, unwrap_or(knob.config.step, knob.config.drag_sensitivity))
    => /\ frame.raw = VerticalFrame.raw
       /\ frame.value = VerticalFrame.value
       /\ Flt(frame.input.drag_delta.y, Zero) => Fle(frame.before, value)
       /\ Flt(Zero, frame.input.drag_delta.y) => Fle(value, frame.before)

\* C20 (as stated): in every frame the raw the indicator and the fill are drawn from
\* is the raw that maps to the value written back, a reset frame included; the
\* monolithic widget draws from the written value itself.
C20_DrawnMatchesWritten ==
    /\ frame.impl = "widget" /\ Flt(knob.min, knob.max) /\ is_fin(frame.raw)
       => /\ frame.angle = AngleAt(frame.raw)
          /\ value = from_raw(knob, frame.raw)
    /\ frame.impl = "lib" => frame.angle = lib_compute_angle(knob, value)

====
